---- MODULE Spec2Model ----
(***************************************************************************)
(* A model of examples/example.py: one Python module holding two module    *)
(* globals, a flat list of functions, the class UserManager and a          *)
(* __main__ block.  The module is either run directly (__name__ is         *)
(* "__main__": the main block runs and the process ends) or imported by a  *)
(* client, which then calls the module's functions one at a time.          *)
(*                                                                         *)
(* Python values are records [t |-> <type name>, v |-> <payload>]; a str   *)
(* is the sequence of its characters, a list or tuple the sequence of its  *)
(* elements, a dict the sequence of its <<key, value>> pairs in insertion  *)
(* order, a float the pair <<numerator, denominator>>.  The text of a str   *)
(* is held character by character wherever the program computes on it and  *)
(* as whole fragments where it only passes a literal along.                *)
(*                                                                         *)
(* A call of a function is one step, except process_user, which is taken   *)
(* statement by statement so that the order of what it invokes shows.      *)
(* The client passes lists of its own to add_item and remove_negatives; it *)
(* does not hand the default list that add_item returned back to them.     *)
(* last, written, nread, reclaimed, omitted, raised, ncalls and trace      *)
(* record what has happened; the program cannot read them.                 *)
(***************************************************************************)
EXTENDS Integers, Sequences, FiniteSets, TLC

VARIABLES
    name,        \* the module's __name__: "__main__" or "example"
    debug,       \* __debug__: FALSE under python -O (assert statements removed)
    user_data,   \* module global user_data
    counter,     \* module global counter
    defaults,    \* add_item's default list: the object made by the def statement
    fs,          \* the file system: path -> [kind, data]
    handles,     \* the open file handles: [by, mode] -> how many are open
    stdout,      \* the lines printed so far
    pc,          \* position in the main block or inside process_user
    data,        \* the main block's variable data
    frame,       \* process_user's frame: self, user_id, user
    trace,       \* the methods the running process_user has invoked, in order
    last,        \* the last call: [op, arg, ret, exc]
    written,     \* path -> the config a completed write_config left there (0: none)
    nread,       \* the read_file calls that have returned
    reclaimed,   \* [by, mode] -> the handles the interpreter has finalized
    omitted,     \* the items of the add_item calls made without a list, in order
    raised,      \* whether a read_file, write_config or copy_file call has raised
    ncalls       \* the calls made so far

vars == <<name, debug, user_data, counter, defaults, fs, handles, stdout, pc, data,
          frame, trace, last, written, nread, reclaimed, omitted, raised, ncalls>>

\* The program's own state: everything but the call record and the bookkeeping.
progvars == <<user_data, counter, defaults, fs, handles, stdout>>

(***************************************************************************)
(* Bounds.                                                                 *)
(***************************************************************************)
MaxCalls == 2   \* calls an importing client makes

(***************************************************************************)
(* Python values.                                                          *)
(***************************************************************************)
None == [t |-> "NoneType", v |-> <<>>]
PyInt(n) == [t |-> "int", v |-> n]
PyBool(b) == [t |-> "bool", v |-> b]
PyStr(s) == [t |-> "str", v |-> s]
PyFloat(n, d) == [t |-> "float", v |-> <<n, d>>]
PyList(s) == [t |-> "list", v |-> s]
PyTuple(s) == [t |-> "tuple", v |-> s]
PyDict(s) == [t |-> "dict", v |-> s]
PySet(s) == [t |-> "set", v |-> s]
\* A list with its identity: "defaults" is add_item's default list, "arg" the
\* list object the caller passed.
ListObj(id, s) == [t |-> "list", v |-> s, id |-> id]

NoExc == "-"

Digits == <<"0", "1", "2", "3", "4", "5", "6", "7", "8", "9">>
IsDigit(c) == \E i \in 1..10 : Digits[i] = c
DigitVal(c) == (CHOOSE i \in 1..10 : Digits[i] = c) - 1

\* str(n) for an int n.
RECURSIVE IntToStr(_)
IntToStr(n) ==
    IF n < 0 THEN <<"-">> \o IntToStr(-n)
    ELSE IF n < 10 THEN <<Digits[n + 1]>>
    ELSE IntToStr(n \div 10) \o <<Digits[(n % 10) + 1]>>

\* s without its leading and trailing blanks (str.strip).
RECURSIVE Strip(_)
Strip(s) ==
    IF s = <<>> THEN s
    ELSE IF Head(s) = " " THEN Strip(Tail(s))
    ELSE IF s[Len(s)] = " " THEN Strip(SubSeq(s, 1, Len(s) - 1))
    ELSE s

\* The value of a run of digits and underscores, most significant first.
RECURSIVE DigitsVal(_, _)
DigitsVal(s, acc) ==
    IF s = <<>> THEN acc
    ELSE IF Head(s) = "_" THEN DigitsVal(Tail(s), acc)
    ELSE DigitsVal(Tail(s), acc * 10 + DigitVal(Head(s)))

\* Whether s is a decimal literal int() accepts after the sign: digits, with
\* single underscores between digits only.
IsIntBody(s) ==
    /\ s # <<>>
    /\ \A i \in 1..Len(s) : IsDigit(s[i]) \/ s[i] = "_"
    /\ IsDigit(s[1]) /\ IsDigit(s[Len(s)])
    /\ \A i \in 1..(Len(s) - 1) : ~(s[i] = "_" /\ s[i + 1] = "_")

\* int(x): [exc, v].  A str is stripped, may carry one sign, and must then be a
\* decimal literal; a bool or int converts to itself, a float truncates toward
\* zero; anything else is a TypeError.
int(x) ==
    CASE x.t = "int" -> [exc |-> NoExc, v |-> x.v]
      [] x.t = "bool" -> [exc |-> NoExc, v |-> IF x.v THEN 1 ELSE 0]
      [] x.t = "float" ->
            [exc |-> NoExc,
             v |-> IF x.v[1] >= 0 THEN x.v[1] \div x.v[2]
                   ELSE -((-x.v[1]) \div x.v[2])]
      [] x.t = "str" ->
            LET s == Strip(x.v)
                signed == s # <<>> /\ Head(s) \in {"-", "+"}
                body == IF signed THEN Tail(s) ELSE s
            IN  IF IsIntBody(body)
                THEN [exc |-> NoExc,
                      v |-> IF signed /\ Head(s) = "-"
                            THEN -DigitsVal(body, 0) ELSE DigitsVal(body, 0)]
                ELSE [exc |-> "ValueError", v |-> 0]
      [] OTHER -> [exc |-> "TypeError", v |-> 0]

(***************************************************************************)
(* json.dumps and json.load, on the values and characters the model uses   *)
(* (no character that needs escaping, no float).                           *)
(***************************************************************************)
RECURSIVE Join(_, _)
Join(parts, sep) ==
    IF parts = <<>> THEN <<>>
    ELSE IF Len(parts) = 1 THEN parts[1]
    ELSE parts[1] \o sep \o Join(Tail(parts), sep)

Quote(s) == <<"\"">> \o s \o <<"\"">>

\* Whether json.dumps accepts x: a set is not serializable, and a dict key must
\* be a str, int, bool or None.
RECURSIVE Serializable(_)
Serializable(x) ==
    CASE x.t \in {"NoneType", "bool", "int", "str"} -> TRUE
      [] x.t \in {"list", "tuple"} -> \A i \in 1..Len(x.v) : Serializable(x.v[i])
      [] x.t = "dict" ->
            \A i \in 1..Len(x.v) :
                /\ x.v[i][1].t \in {"str", "int", "bool", "NoneType"}
                /\ Serializable(x.v[i][2])
      [] OTHER -> FALSE

\* The text of a scalar; a dict key that is not a str is written as this text.
ScalarText(x) ==
    CASE x.t = "NoneType" -> <<"n", "u", "l", "l">>
      [] x.t = "bool" -> IF x.v THEN <<"t", "r", "u", "e">>
                         ELSE <<"f", "a", "l", "s", "e">>
      [] x.t = "int" -> IntToStr(x.v)
      [] x.t = "str" -> x.v

RECURSIVE Encode(_)
Encode(x) ==
    CASE x.t = "str" -> Quote(x.v)
      [] x.t \in {"NoneType", "bool", "int"} -> ScalarText(x)
      [] x.t \in {"list", "tuple"} ->
            <<"[">> \o Join([i \in 1..Len(x.v) |-> Encode(x.v[i])], <<",", " ">>)
                    \o <<"]">>
      [] x.t = "dict" ->
            <<"{">> \o Join([i \in 1..Len(x.v) |->
                                Quote(ScalarText(x.v[i][1])) \o <<":", " ">>
                                    \o Encode(x.v[i][2])],
                            <<",", " ">>)
                    \o <<"}">>

\* json.dumps(x): [exc, v].
dumps(x) ==
    IF Serializable(x) THEN [exc |-> NoExc, v |-> Encode(x)]
    ELSE [exc |-> "TypeError", v |-> <<>>]

RECURSIVE SkipWs(_, _)
SkipWs(s, i) == IF i <= Len(s) /\ s[i] = " " THEN SkipWs(s, i + 1) ELSE i

\* The end of the run of digits that starts at i.
RECURSIVE DigitsEnd(_, _)
DigitsEnd(s, i) ==
    IF i + 1 <= Len(s) /\ IsDigit(s[i + 1]) THEN DigitsEnd(s, i + 1) ELSE i

Fail == [ok |-> FALSE, v |-> None, i |-> 0]
Parsed(x, i) == [ok |-> TRUE, v |-> x, i |-> i]

\* The word lit at position i of s.
Literal(s, i, lit, x) ==
    IF i + Len(lit) - 1 <= Len(s) /\ SubSeq(s, i, i + Len(lit) - 1) = lit
    THEN Parsed(x, i + Len(lit)) ELSE Fail

\* A string that starts with the quote at i: up to the next quote.
ParseString(s, i) ==
    IF \E j \in (i + 1)..Len(s) : s[j] = "\""
    THEN LET j == CHOOSE j \in (i + 1)..Len(s) :
                      /\ s[j] = "\""
                      /\ \A k \in (i + 1)..(j - 1) : s[k] # "\""
         IN  Parsed(PyStr(SubSeq(s, i + 1, j - 1)), j + 1)
    ELSE Fail

\* An integer at i: -? (0 | [1-9][0-9]*).
ParseNumber(s, i) ==
    LET neg == s[i] = "-"
        b == IF neg THEN i + 1 ELSE i
    IN  IF b > Len(s) \/ ~IsDigit(s[b]) THEN Fail
        ELSE LET e == IF s[b] = "0" THEN b ELSE DigitsEnd(s, b)
                 n == DigitsVal(SubSeq(s, b, e), 0)
             IN  Parsed(PyInt(IF neg THEN -n ELSE n), e + 1)

\* A repeated key keeps its first position and takes the last value.
DictPut(pairs, k, x) ==
    IF \E i \in 1..Len(pairs) : pairs[i][1] = k
    THEN [i \in 1..Len(pairs) |-> IF pairs[i][1] = k THEN <<k, x>> ELSE pairs[i]]
    ELSE Append(pairs, <<k, x>>)

RECURSIVE ParseValue(_, _), ParseElems(_, _, _), ParseMembers(_, _, _)
\* The elements of an array from i on (blanks skipped), acc being those read.
ParseElems(s, i, acc) ==
    LET r == ParseValue(s, i)
        k == SkipWs(s, r.i)
    IN  IF ~r.ok \/ k > Len(s) THEN Fail
        ELSE IF s[k] = "," THEN ParseElems(s, SkipWs(s, k + 1), Append(acc, r.v))
        ELSE IF s[k] = "]" THEN Parsed(PyList(Append(acc, r.v)), k + 1)
        ELSE Fail

\* The members of an object from i on (blanks skipped), acc being those read.
ParseMembers(s, i, acc) ==
    IF i > Len(s) \/ s[i] # "\"" THEN Fail
    ELSE LET key == ParseString(s, i)
             c == SkipWs(s, key.i)
         IN  IF ~key.ok \/ c > Len(s) \/ s[c] # ":" THEN Fail
             ELSE LET r == ParseValue(s, SkipWs(s, c + 1))
                      k == SkipWs(s, r.i)
                  IN  IF ~r.ok \/ k > Len(s) THEN Fail
                      ELSE IF s[k] = ","
                           THEN ParseMembers(s, SkipWs(s, k + 1),
                                             DictPut(acc, key.v, r.v))
                      ELSE IF s[k] = "}"
                           THEN Parsed(PyDict(DictPut(acc, key.v, r.v)), k + 1)
                      ELSE Fail

ParseValue(s, i) ==
    IF i > Len(s) THEN Fail
    ELSE CASE s[i] = "\"" -> ParseString(s, i)
           [] s[i] = "{" ->
                LET j == SkipWs(s, i + 1)
                IN  IF j <= Len(s) /\ s[j] = "}" THEN Parsed(PyDict(<<>>), j + 1)
                    ELSE ParseMembers(s, j, <<>>)
           [] s[i] = "[" ->
                LET j == SkipWs(s, i + 1)
                IN  IF j <= Len(s) /\ s[j] = "]" THEN Parsed(PyList(<<>>), j + 1)
                    ELSE ParseElems(s, j, <<>>)
           [] s[i] = "n" -> Literal(s, i, <<"n", "u", "l", "l">>, None)
           [] s[i] = "t" -> Literal(s, i, <<"t", "r", "u", "e">>, PyBool(TRUE))
           [] s[i] = "f" -> Literal(s, i, <<"f", "a", "l", "s", "e">>, PyBool(FALSE))
           [] s[i] = "-" \/ IsDigit(s[i]) -> ParseNumber(s, i)
           [] OTHER -> Fail

\* json.loads(text): [exc, v].  One value, blanks around it, nothing after it.
loads(text) ==
    LET r == ParseValue(text, SkipWs(text, 1))
    IN  IF r.ok /\ SkipWs(text, r.i) = Len(text) + 1
        THEN [exc |-> NoExc, v |-> r.v]
        ELSE [exc |-> "JSONDecodeError", v |-> None]

\* str(x), for the values the model prints or concatenates.
str(x) ==
    CASE x.t = "int" -> IntToStr(x.v)
      [] x.t = "NoneType" -> <<"None">>
      [] x.t = "bool" -> IF x.v THEN <<"True">> ELSE <<"False">>
      [] x.t = "str" -> x.v

(***************************************************************************)
(* The inputs the client draws its arguments from.                         *)
(***************************************************************************)
Items == {1, 2}
Paths == {"cfg", "txt", "dir"}

\* The lists of numbers the client passes.
NumberLists ==
    << <<>>, <<1, 2>>, <<-1, 1>>, <<-1, -2>>, <<-1, 2, -1>>, <<1, -1, -2, 3>> >>

\* Those among them passed to the functions that only read their list.
ReadOnlyLists == {1, 2, 6}

\* write_config's config: two JSON-native values, a dict with an int key, a
\* tuple and a set.
Configs ==
    << PyDict(<< <<PyStr(<<"a">>), PyList(<<PyInt(1), None>>)>> >>),
       PyDict(<<>>),
       PyDict(<< <<PyInt(1), PyInt(2)>> >>),
       PyTuple(<<PyInt(1), PyInt(2)>>),
       PySet({1}) >>

\* process_data's data.
Datas ==
    << PyStr(<<"1", "2", "3">>), PyStr(<<" ", "-", "7", " ">>),
       PyStr(<<"1", "_", "0">>), PyStr(<<"1", "2", "a">>), PyStr(<<>>),
       PyStr(<<"-", "-", "1">>), PyInt(7), PyBool(TRUE), PyFloat(-3, 2),
       None, PyList(<<>>) >>

Ages == {-1, 0, 1, 149, 150, 151}
UserIds == {7}

\* A config made of JSON's own types only: None, bool, int, str, list, and dict
\* with str keys.
RECURSIVE IsJsonNative(_)
IsJsonNative(x) ==
    CASE x.t \in {"NoneType", "bool", "int", "str"} -> TRUE
      [] x.t = "list" -> \A i \in 1..Len(x.v) : IsJsonNative(x.v[i])
      [] x.t = "dict" ->
            \A i \in 1..Len(x.v) :
                x.v[i][1].t = "str" /\ IsJsonNative(x.v[i][2])
      [] OTHER -> FALSE

(***************************************************************************)
(* The state after the module's top-level statements have run.             *)
(***************************************************************************)
Absent == [kind |-> "absent", data |-> <<>>]
Directory == [kind |-> "dir", data |-> <<>>]
File(text) == [kind |-> "file", data |-> text]

\* The files the run finds: cfg does not exist, txt holds text that is not
\* JSON, dir is a directory.
InitFs ==
    [p \in Paths |->
        CASE p = "cfg" -> Absent
          [] p = "txt" -> File(<<"h", "i">>)
          [] p = "dir" -> Directory]

\* The handles the functions open, by the function and the mode.
HandleKinds ==
    {<<"read_file", "r">>, <<"write_config", "w">>, <<"copy_file", "rb">>,
     <<"copy_file", "wb">>, <<"load_json", "r">>}

NoCall == [op |-> "-", arg |-> <<>>, ret |-> None, exc |-> "-"]
NoFrame == [self |-> 0, user_id |-> 0, user |-> None]

Init ==
    /\ name \in {"__main__", "example"}
    /\ debug \in BOOLEAN
    /\ user_data = PyDict(<<>>)
    /\ counter = 0
    /\ defaults = <<>>
    /\ fs = InitFs
    /\ handles = [k \in HandleKinds |-> 0]
    /\ stdout = <<>>
    /\ pc = IF name = "__main__" THEN "main" ELSE "idle"
    /\ data = None
    /\ frame = NoFrame
    /\ trace = <<>>
    /\ last = NoCall
    /\ written = [p \in Paths |-> 0]
    /\ nread = 0
    /\ reclaimed = [k \in HandleKinds |-> 0]
    /\ omitted = <<>>
    /\ raised = FALSE
    /\ ncalls = 0

(***************************************************************************)
(* What a call does: its result and the program state it leaves.           *)
(***************************************************************************)
Same ==
    [ret |-> None, exc |-> NoExc, user_data |-> user_data, counter |-> counter,
     defaults |-> defaults, fs |-> fs, handles |-> handles, stdout |-> stdout]
Return(x) == [Same EXCEPT !.ret = x]
Raise(e) == [Same EXCEPT !.exc = e]

\* The state a call leaves.
Effect(e) ==
    /\ user_data' = e.user_data
    /\ counter' = e.counter
    /\ defaults' = e.defaults
    /\ fs' = e.fs
    /\ handles' = e.handles
    /\ stdout' = e.stdout

\* A call the importing client makes, from outside any running call.
Do(op, arg, e) ==
    /\ pc = "idle"
    /\ ncalls < MaxCalls
    /\ Effect(e)
    /\ last' = [op |-> op, arg |-> arg, ret |-> e.ret, exc |-> e.exc]
    /\ ncalls' = ncalls + 1
    /\ UNCHANGED <<name, debug, pc, data, frame, trace>>

\* What only the calls on files and the calls without a list keep up to date.
bookkeeping == <<written, nread, reclaimed, omitted, raised>>

\* The handle table with one more, or one fewer, open handle of a kind.
Opened(h, by, mode) == [h EXCEPT ![<<by, mode>>] = @ + 1]
Closed(h, by, mode) == [h EXCEPT ![<<by, mode>>] = @ - 1]

\* open(path, mode): the exception it raises, if any.
OpenExc(f, path, mode) ==
    CASE f[path].kind = "dir" -> "IsADirectoryError"
      [] f[path].kind = "absent" /\ mode \in {"r", "rb"} -> "FileNotFoundError"
      [] OTHER -> NoExc

\* The file system after open(path, "w") succeeded: the file exists and is empty.
Truncated(f, path) == [f EXCEPT ![path] = File(<<>>)]

(***************************************************************************)
(* add_item and remove_negatives.                                          *)
(***************************************************************************)
\* items is the list object appended to and returned: the default list when the
\* caller passed none, else the caller's.
add_item(item, items) ==
    IF items.id = "defaults"
    THEN [Return(ListObj("defaults", Append(defaults, item))) EXCEPT
             !.defaults = Append(defaults, item)]
    ELSE Return(ListObj(items.id, Append(items.v, item)))

\* As add_item_default, had the default been a new list on every call.
add_item_fresh(item) == add_item(item, ListObj("fresh", <<>>))

\* items omitted: the parameter is bound to the one list object that the def
\* statement made.
add_item_default(item) == add_item(item, ListObj("defaults", defaults))

AddItemDefault ==
    \E item \in Items :
        /\ Do("add_item", [item |-> item, given |-> FALSE, items |-> <<>>],
              add_item_default(item))
        /\ omitted' = Append(omitted, item)
        /\ UNCHANGED <<written, nread, reclaimed, raised>>

AddItem ==
    \E item \in Items, own \in {<<>>, <<9>>} :
        /\ Do("add_item", [item |-> item, given |-> TRUE, items |-> own],
              add_item(item, ListObj("arg", own)))
        /\ UNCHANGED bookkeeping

\* list.remove(x): s without its first element equal to x.
RemoveFirst(s, x) ==
    LET i == CHOOSE i \in 1..Len(s) :
                 s[i] = x /\ \A j \in 1..(i - 1) : s[j] # x
    IN  SubSeq(s, 1, i - 1) \o SubSeq(s, i + 1, Len(s))

\* The for loop over the list it mutates: the iterator holds an index i, takes
\* element i while i is within the list as it is now, and moves on by one.
RECURSIVE RemoveLoop(_, _)
RemoveLoop(numbers, i) ==
    IF i > Len(numbers) THEN numbers
    ELSE IF numbers[i] < 0
    THEN RemoveLoop(RemoveFirst(numbers, numbers[i]), i + 1)
    ELSE RemoveLoop(numbers, i + 1)

remove_negatives(numbers) == Return(ListObj(numbers.id, RemoveLoop(numbers.v, 1)))

RemoveNegatives ==
    \E n \in 1..Len(NumberLists) :
        /\ Do("remove_negatives", NumberLists[n],
                 remove_negatives(ListObj("arg", NumberLists[n])))
        /\ UNCHANGED bookkeeping

(***************************************************************************)
(* read_file, write_config, copy_file, load_json.                          *)
(***************************************************************************)
\* As read_file, had it closed the file before returning.
read_file_closing(filename) ==
    LET e == OpenExc(fs, filename, "r")
    IN  IF e # NoExc THEN Raise(e) ELSE Return(PyStr(fs[filename].data))

read_file(filename) ==
    LET e == OpenExc(fs, filename, "r")
    IN  IF e # NoExc THEN Raise(e)
        ELSE [Return(PyStr(fs[filename].data)) EXCEPT
                 !.handles = Opened(handles, "read_file", "r")]

ReadFile ==
    \E filename \in Paths :
        LET e == read_file(filename)
        IN  /\ Do("read_file", filename, e)
            /\ nread' = IF e.exc = NoExc THEN nread + 1 ELSE nread
            /\ raised' = (raised \/ e.exc # NoExc)
            /\ UNCHANGED <<written, reclaimed, omitted>>

write_config(filename, config) ==
    LET e == OpenExc(fs, filename, "w")
        opened == Opened(handles, "write_config", "w")
        text == dumps(config)
    IN  IF e # NoExc THEN Raise(e)
        ELSE IF text.exc # NoExc
        THEN [Raise(text.exc) EXCEPT
                 !.fs = Truncated(fs, filename), !.handles = opened]
        ELSE [Return(None) EXCEPT
                 !.fs = [fs EXCEPT ![filename] = File(text.v)],
                 !.handles = Closed(opened, "write_config", "w")]

WriteConfig ==
    \E filename \in Paths, c \in 1..Len(Configs) :
        LET e == write_config(filename, Configs[c])
        IN  /\ Do("write_config", [filename |-> filename, config |-> c], e)
            /\ raised' = (raised \/ e.exc # NoExc)
            /\ written' = IF e.exc = NoExc THEN [written EXCEPT ![filename] = c]
                          ELSE IF e.fs # fs THEN [written EXCEPT ![filename] = 0]
                          ELSE written
            /\ UNCHANGED <<nread, reclaimed, omitted>>

copy_file(source, destination) ==
    LET es == OpenExc(fs, source, "rb")
        ed == OpenExc(fs, destination, "wb")
        src == Opened(handles, "copy_file", "rb")
        dst == Opened(src, "copy_file", "wb")
        fs1 == Truncated(fs, destination)
    IN  IF es # NoExc THEN Raise(es)
        ELSE IF ed # NoExc THEN [Raise(ed) EXCEPT !.handles = src]
        ELSE [Return(None) EXCEPT
                 !.fs = [fs1 EXCEPT ![destination] = File(fs1[source].data)],
                 !.handles = Closed(Closed(dst, "copy_file", "rb"), "copy_file", "wb")]

CopyFile ==
    \E source \in Paths, destination \in Paths :
        LET e == copy_file(source, destination)
        IN  /\ Do("copy_file", [source |-> source, destination |-> destination], e)
            /\ raised' = (raised \/ e.exc # NoExc)
            /\ written' = IF e.exc = NoExc THEN [written EXCEPT ![destination] = 0]
                          ELSE written
            /\ UNCHANGED <<nread, reclaimed, omitted>>

\* print(f"Error: {e}"): the line ends with the text of the exception, which
\* the model holds as the exception's name.
ErrorLine(e) == <<"Error: ", e>>

\* As load_json, had it caught OSError only.
load_json_narrow(filename) ==
    LET e == OpenExc(fs, filename, "r")
        r == loads(fs[filename].data)
    IN  IF e # NoExc
        THEN [Return(PyDict(<<>>)) EXCEPT !.stdout = Append(stdout, ErrorLine(e))]
        ELSE IF r.exc # NoExc THEN Raise(r.exc)
        ELSE Return(r.v)

load_json(filename) ==
    LET e == OpenExc(fs, filename, "r")
        opened == Opened(handles, "load_json", "r")
        r == loads(fs[filename].data)
    IN  IF e # NoExc
        THEN [Return(PyDict(<<>>)) EXCEPT !.stdout = Append(stdout, ErrorLine(e))]
        ELSE IF r.exc # NoExc
        THEN [Return(PyDict(<<>>)) EXCEPT
                 !.stdout = Append(stdout, ErrorLine(r.exc)),
                 !.handles = Closed(opened, "load_json", "r")]
        ELSE [Return(r.v) EXCEPT !.handles = Closed(opened, "load_json", "r")]

LoadJson ==
    \E filename \in Paths :
        /\ Do("load_json", filename, load_json(filename))
        /\ UNCHANGED bookkeeping

\* A file object nothing refers to any more is closed by the interpreter when
\* it reclaims the object: at once under reference counting, at some later
\* collection otherwise.  Between calls no frame of the module is alive, so
\* every handle its functions left open belongs to such an object.
Finalize ==
    \E k \in HandleKinds :
        /\ pc = "idle"
        /\ handles[k] > 0
        /\ handles' = [handles EXCEPT ![k] = @ - 1]
        /\ reclaimed' = [reclaimed EXCEPT ![k] = @ + 1]
        /\ UNCHANGED <<name, debug, user_data, counter, defaults, fs, stdout, pc, data,
                       frame, trace, last, written, nread, omitted, raised, ncalls>>

(***************************************************************************)
(* process_data, set_age, calculate.                                       *)
(***************************************************************************)
\* As process_data, without the doubling.
process_data_undoubled(d) ==
    LET r == int(d)
    IN  IF r.exc = NoExc THEN Return(PyInt(r.v)) ELSE Return(None)

\* As process_data, had it caught ValueError only.
process_data_narrow(d) ==
    LET r == int(d)
    IN  IF r.exc = NoExc THEN Return(PyInt(r.v * 2))
        ELSE IF r.exc = "ValueError" THEN Return(None)
        ELSE Raise(r.exc)

\* The bare except catches whatever int() raises.
process_data(d) ==
    LET r == int(d)
    IN  IF r.exc = NoExc THEN Return(PyInt(r.v * 2)) ELSE Return(None)

ProcessData ==
    \E d \in 1..Len(Datas) :
        /\ Do("process_data", Datas[d], process_data(Datas[d]))
        /\ UNCHANGED bookkeeping

\* As set_age, had the upper check been age <= 150.
set_age_inclusive(age) ==
    IF debug /\ ~(age > 0) THEN Raise("AssertionError: Age must be positive")
    ELSE IF debug /\ ~(age <= 150) THEN Raise("AssertionError: Age too high")
    ELSE Return(PyInt(age))

\* The assert statements exist only when __debug__ is true.
set_age(age) ==
    IF debug /\ ~(age > 0) THEN Raise("AssertionError: Age must be positive")
    ELSE IF debug /\ ~(age < 150) THEN Raise("AssertionError: Age too high")
    ELSE Return(PyInt(age))

SetAge ==
    \E age \in Ages :
        /\ Do("set_age", age, set_age(age))
        /\ UNCHANGED bookkeeping

\* The expressions the client passes to calculate, parsed:
\*   "1 + 2", "1 / 0", "counter", "1 +",
\*   "user_data.update(a=1)", "globals().update(counter=1)".
Expressions ==
    << [k |-> "add", a |-> 1, b |-> 2],
       [k |-> "div", a |-> 1, b |-> 0],
       [k |-> "name", id |-> "counter"],
       [k |-> "invalid"],
       [k |-> "update", target |-> "user_data", key |-> "a", value |-> 1],
       [k |-> "update", target |-> "globals", key |-> "counter", value |-> 1] >>

\* eval(expression) in the module's namespace: the expression reads the
\* module's globals and calls whatever it names.
eval(x) ==
    CASE x.k = "add" -> Return(PyInt(x.a + x.b))
      [] x.k = "div" -> IF x.b = 0 THEN Raise("ZeroDivisionError")
                        ELSE Return(PyFloat(x.a, x.b))
      [] x.k = "name" -> Return(PyInt(counter))
      [] x.k = "invalid" -> Raise("SyntaxError")
      [] x.k = "update" /\ x.target = "user_data" ->
            [Return(None) EXCEPT
                !.user_data = PyDict(DictPut(user_data.v, PyStr(<<x.key>>),
                                             PyInt(x.value)))]
      [] x.k = "update" /\ x.target = "globals" ->
            [Return(None) EXCEPT !.counter = x.value]

calculate(expression) == eval(expression)

Calculate ==
    \E x \in 1..Len(Expressions) :
        /\ Do("calculate", x, calculate(Expressions[x]))
        /\ UNCHANGED bookkeeping

(***************************************************************************)
(* The functions that compute a value from their arguments alone.          *)
(***************************************************************************)
RECURSIVE build_message_loop(_, _)
build_message_loop(items, message) ==
    IF items = <<>> THEN message
    ELSE build_message_loop(Tail(items),
                            message \o str(PyInt(Head(items))) \o <<",", " ">>)

build_message(items) == Return(PyStr(build_message_loop(items, <<>>)))

RECURSIVE Total(_, _)
Total(ItemList, acc) ==
    IF ItemList = <<>> THEN acc ELSE Total(Tail(ItemList), acc + Head(ItemList))

CalculateTotal(ItemList) == Return(PyInt(Total(ItemList, 0)))

connect_to_database ==
    LET db_password == "admin123"
        db_user == "root"
    IN  Return(PyStr(<<"mysql://", db_user, ":", db_password, "@localhost/mydb">>))

IsEven(num) == num % 2 = 0
filter_even_numbers(numbers) == Return(PyList(SelectSeq(numbers, IsEven)))

has_positive_number(numbers) ==
    Return(PyBool(\E i \in 1..Len(numbers) : numbers[i] > 0))

\* item1 is appended once for every element of list2 equal to it.
RECURSIVE Repeat(_, _)
Repeat(x, n) == IF n = 0 THEN <<>> ELSE <<x>> \o Repeat(x, n - 1)

RECURSIVE Duplicates(_, _)
Duplicates(list1, list2) ==
    IF list1 = <<>> THEN <<>>
    ELSE Repeat(Head(list1),
                Cardinality({j \in 1..Len(list2) : list2[j] = Head(list1)}))
            \o Duplicates(Tail(list1), list2)

find_duplicates(list1, list2) == Return(PyList(Duplicates(list1, list2)))

\* Prices in exact arithmetic: 9.99 is 999/100, 0.8 is 8/10, 0.9 is 9/10.
calculate_price(quantity) ==
    IF quantity > 100 THEN Return(PyFloat(quantity * 999 * 8, 1000))
    ELSE IF quantity > 50 THEN Return(PyFloat(quantity * 999 * 9, 1000))
    ELSE Return(PyFloat(quantity * 999, 100))

divide_numbers(a, b) ==
    IF b = 0 THEN Raise("ZeroDivisionError") ELSE Return(PyFloat(a, b))

\* value is 10: an identity test.  Whether an int equal to 10 is the same
\* object as the literal is up to the interpreter; any other value is not.
check_value(value, same) == Return(PyBool(value = PyInt(10) /\ same))

\* os.getcwd() is whatever directory the process runs in.
get_config_path(cwd) == Return(PyStr(<<cwd, "/config/", "settings.json">>))

\* time.clock exists up to Python 3.7 and returns the processor time; later
\* versions have no such attribute.
get_current_time(has_clock, t) ==
    IF has_clock THEN Return(PyFloat(t, 1000)) ELSE Raise("AttributeError")

BuildMessage ==
    \E n \in ReadOnlyLists :
        /\ Do("build_message", NumberLists[n], build_message(NumberLists[n]))
        /\ UNCHANGED bookkeeping

CalculateTotalCall ==
    \E n \in ReadOnlyLists :
        /\ Do("CalculateTotal", NumberLists[n], CalculateTotal(NumberLists[n]))
        /\ UNCHANGED bookkeeping

FilterEvenNumbers ==
    \E n \in ReadOnlyLists :
        /\ Do("filter_even_numbers", NumberLists[n],
                 filter_even_numbers(NumberLists[n]))
        /\ UNCHANGED bookkeeping

HasPositiveNumber ==
    \E n \in ReadOnlyLists :
        /\ Do("has_positive_number", NumberLists[n],
                 has_positive_number(NumberLists[n]))
        /\ UNCHANGED bookkeeping

FindDuplicates ==
    \E n \in {2, 5}, m \in {2, 5} :
        /\ Do("find_duplicates", <<NumberLists[n], NumberLists[m]>>,
                 find_duplicates(NumberLists[n], NumberLists[m]))
        /\ UNCHANGED bookkeeping

CalculatePrice ==
    \E quantity \in {50, 51, 100, 101} :
        /\ Do("calculate_price", quantity, calculate_price(quantity))
        /\ UNCHANGED bookkeeping

DivideNumbers ==
    \E a \in {1}, b \in {0, 2} :
        /\ Do("divide_numbers", <<a, b>>, divide_numbers(a, b))
        /\ UNCHANGED bookkeeping

CheckValue ==
    \E value \in {PyInt(10), PyInt(11)}, same \in BOOLEAN :
        /\ Do("check_value", value, check_value(value, same))
        /\ UNCHANGED bookkeeping

ConnectToDatabase ==
    /\ Do("connect_to_database", <<>>, connect_to_database)
    /\ UNCHANGED bookkeeping

GetConfigPath ==
    \E cwd \in {"/srv/app"} :
        /\ Do("get_config_path", <<>>, get_config_path(cwd))
        /\ UNCHANGED bookkeeping

GetCurrentTime ==
    \E has_clock \in BOOLEAN :
        /\ Do("get_current_time", <<>>, get_current_time(has_clock, 15))
        /\ UNCHANGED bookkeeping

(***************************************************************************)
(* UserManager.                                                            *)
(***************************************************************************)
\* The instances process_user runs on: a UserManager, and instances of
\* subclasses whose get_user returns a user of another age.
Selves ==
    << [cls |-> "UserManager", age |-> 25],
       [cls |-> "subclass", age |-> 17],
       [cls |-> "subclass", age |-> 18] >>

User(user_id, age) ==
    PyDict(<< <<PyStr(<<"id">>), PyInt(user_id)>>,
              <<PyStr(<<"age">>), PyInt(age)>>,
              <<PyStr(<<"email">>), PyStr(<<"user@example.com">>)>> >>)

\* d[key], for a key the dict holds.
Item(d, key) == d.v[CHOOSE i \in 1..Len(d.v) : d.v[i][1] = PyStr(<<key>>)][2]

\* As log_action, had it counted the actions in the global counter.
log_action_counting(user_id, action) == [Return(None) EXCEPT !.counter = counter + 1]

\* As update_cache, had it kept the user in the global user_data.
update_cache_storing(user_id, user) ==
    [Return(None) EXCEPT
        !.user_data = PyDict(DictPut(user_data.v, PyInt(user_id), user))]

get_user(user_id) == Return(User(user_id, 25))
send_email(email, message) == Return(None)
log_action(user_id, action) == Return(None)
update_cache(user_id, user) == Return(None)

\* self.get_user(user_id): the method of the instance's class.
self_get_user(self, user_id) ==
    IF Selves[self].cls = "UserManager" THEN get_user(user_id)
    ELSE Return(User(user_id, Selves[self].age))

GetUser == \E user_id \in UserIds : /\ Do("get_user", user_id, get_user(user_id))
                                    /\ UNCHANGED bookkeeping

SendEmail ==
    /\ Do("send_email", <<>>,
          send_email(PyStr(<<"user@example.com">>), PyStr(<<"Welcome!">>)))
    /\ UNCHANGED bookkeeping

LogAction ==
    \E user_id \in UserIds :
        /\ Do("log_action", user_id, log_action(user_id, PyStr(<<"processed">>)))
        /\ UNCHANGED bookkeeping

UpdateCache ==
    \E user_id \in UserIds :
        /\ Do("update_cache", user_id, update_cache(user_id, User(user_id, 25)))
        /\ UNCHANGED bookkeeping

\* A step inside process_user: the state the invoked method leaves.
Step(e, next) ==
    /\ Effect(e)
    /\ pc' = next
    /\ UNCHANGED <<name, debug, data, last, written, nread, reclaimed, omitted, raised,
                   ncalls>>

\* process_user ends: the call record is written and the frame is dropped.
Finish(ret, exc) ==
    /\ last' = [op |-> "process_user",
                arg |-> [self |-> frame.self, user_id |-> frame.user_id,
                         user |-> frame.user, trace |-> trace],
                ret |-> ret, exc |-> exc]
    /\ pc' = "idle"
    /\ frame' = NoFrame
    /\ trace' = <<>>
    /\ ncalls' = ncalls + 1
    /\ UNCHANGED <<name, debug, data, written, nread, reclaimed, omitted, raised>>
    /\ UNCHANGED progvars

\* user = self.get_user(user_id)
ProcessUser ==
    \E self \in 1..Len(Selves), user_id \in UserIds :
        LET e == self_get_user(self, user_id)
        IN  /\ pc = "idle"
            /\ ncalls < MaxCalls
            /\ Step(e, "validate")
            /\ frame' = [self |-> self, user_id |-> user_id, user |-> e.ret]
            /\ trace' = <<"get_user">>

\* As process_user_validate, had the check been age <= 18.
process_user_validate_inclusive ==
    IF Item(frame.user, "age").v <= 18
    THEN Finish(None, "ValueError: Too young")
    ELSE Step(Same, "send_email") /\ UNCHANGED <<frame, trace>>

\* if user["age"] < 18: raise ValueError("Too young")
process_user_validate ==
    IF Item(frame.user, "age").v < 18
    THEN Finish(None, "ValueError: Too young")
    ELSE Step(Same, "send_email") /\ UNCHANGED <<frame, trace>>

ProcessUserValidate == pc = "validate" /\ process_user_validate

\* self.send_email(user["email"], "Welcome!")
ProcessUserSendEmail ==
    /\ pc = "send_email"
    /\ Step(send_email(Item(frame.user, "email"), PyStr(<<"Welcome!">>)), "log_action")
    /\ trace' = Append(trace, "send_email")
    /\ UNCHANGED frame

\* self.log_action(user_id, "processed")
ProcessUserLogAction ==
    /\ pc = "log_action"
    /\ Step(log_action(frame.user_id, PyStr(<<"processed">>)), "update_cache")
    /\ trace' = Append(trace, "log_action")
    /\ UNCHANGED frame

\* self.update_cache(user_id, user)
ProcessUserUpdateCache ==
    /\ pc = "update_cache"
    /\ Step(update_cache(frame.user_id, frame.user), "return")
    /\ trace' = Append(trace, "update_cache")
    /\ UNCHANGED frame

\* return user
ProcessUserReturn == pc = "return" /\ Finish(frame.user, NoExc)

(***************************************************************************)
(* The __main__ block.                                                     *)
(***************************************************************************)
print(e, x) == [e EXCEPT !.stdout = Append(e.stdout, str(x))]

MainStep(e, next) ==
    /\ Effect(e)
    /\ pc' = next
    /\ UNCHANGED <<name, debug, frame, trace, written, nread, reclaimed, omitted, raised>>

\* print("Running script...")
MainPrint ==
    /\ pc = "main"
    /\ MainStep(print(Same, PyStr(<<"Running script...">>)), "main_call")
    /\ UNCHANGED <<data, last, ncalls>>

\* data = process_data("123")
MainCall ==
    LET arg == PyStr(<<"1", "2", "3">>)
        e == process_data(arg)
    IN  /\ pc = "main_call"
        /\ MainStep(e, "main_print")
        /\ data' = e.ret
        /\ last' = [op |-> "process_data", arg |-> arg, ret |-> e.ret, exc |-> e.exc]
        /\ ncalls' = ncalls + 1

\* print(data)
MainPrintData ==
    /\ pc = "main_print"
    /\ MainStep(print(Same, data), "exit")
    /\ UNCHANGED <<data, last, ncalls>>

Next ==
    \/ AddItemDefault
    \/ AddItem
    \/ RemoveNegatives
    \/ ReadFile
    \/ WriteConfig
    \/ CopyFile
    \/ LoadJson
    \/ Finalize
    \/ ProcessData
    \/ SetAge
    \/ Calculate
    \/ BuildMessage
    \/ CalculateTotalCall
    \/ FilterEvenNumbers
    \/ HasPositiveNumber
    \/ FindDuplicates
    \/ CalculatePrice
    \/ DivideNumbers
    \/ CheckValue
    \/ ConnectToDatabase
    \/ GetConfigPath
    \/ GetCurrentTime
    \/ GetUser
    \/ SendEmail
    \/ LogAction
    \/ UpdateCache
    \/ ProcessUser
    \/ ProcessUserValidate
    \/ ProcessUserSendEmail
    \/ ProcessUserLogAction
    \/ ProcessUserUpdateCache
    \/ ProcessUserReturn
    \/ MainPrint
    \/ MainCall
    \/ MainPrintData

Spec == Init /\ [][Next]_vars

(***************************************************************************)
(* The claims.                                                             *)
(***************************************************************************)
\* The step is a call of op that has just completed.
Called(op) == last'.op = op /\ ncalls' = ncalls + 1

NoHandles == [k \in HandleKinds |-> 0]
MainOutput == << <<"Running script...">>, <<"2", "4", "6">> >>

\* C1: run directly, the module prints "Running script..." and then 246, two
\* lines in this order and nothing else, writes no file and opens no handle.
C1_MainOutput ==
    name = "__main__" =>
        /\ Len(stdout) <= 2
        /\ stdout = SubSeq(MainOutput, 1, Len(stdout))
        /\ (pc = "exit" => stdout = MainOutput)
        /\ (pc = "main_print" => data = PyInt(246))
        /\ fs = InitFs
        /\ handles = NoHandles /\ reclaimed = NoHandles

C1_Witness == name = "__main__" /\ pc = "exit" /\ Len(stdout) = 2

\* C2: the k-th add_item call made without a list returns the default list
\* object holding the items of all k such calls in call order; a call that
\* passes its own list returns that list with the item appended and leaves the
\* default list as it was.
C2_SharedDefault ==
    /\ defaults = omitted
    /\ (last.op = "add_item" /\ ~last.arg.given
            => last.ret = ListObj("defaults", omitted)
               /\ omitted[Len(omitted)] = last.arg.item)
    /\ (last.op = "add_item" /\ last.arg.given
            => last.ret = ListObj("arg", Append(last.arg.items, last.arg.item)))

C2_Witness ==
    /\ last.op = "add_item" /\ ~last.arg.given
    /\ Len(omitted) = 2 /\ omitted[1] # omitted[2]
    /\ last.ret.v = omitted

RF == <<"read_file", "r">>
ClosedByTheCall(k) == handles[k] = 0 /\ reclaimed[k] = 0

\* C3 as stated: when no read_file, write_config or copy_file call has raised,
\* no handle of write_config or copy_file is open and exactly one handle per
\* read_file call is open.
C3_OneOpenHandlePerRead ==
    ~raised =>
        /\ \A k \in HandleKinds \ {RF} : handles[k] = 0
        /\ handles[RF] = nread

\* C3, amended: when no read_file, write_config or copy_file call has raised,
\* every handle of write_config and copy_file was closed by the call that
\* opened it, and read_file closed none: each read_file call left one handle,
\* which is open or has been finalized by the interpreter.
C3_ReadFileNeverCloses ==
    ~raised =>
        /\ \A k \in HandleKinds \ {RF} : ClosedByTheCall(k)
        /\ handles[RF] + reclaimed[RF] = nread

C3_Witness ==
    /\ ~raised /\ nread = 1 /\ handles[RF] = 1
    /\ last.op = "copy_file" /\ last.exc = NoExc

\* C4 as stated: a call of get_user, send_email, log_action or update_cache
\* changes no program state and returns None.
C4_FourNoOps ==
    [][\A m \in {"get_user", "send_email", "log_action", "update_cache"} :
           Called(m) => /\ UNCHANGED progvars
                        /\ last'.ret = None /\ last'.exc = NoExc]_vars

\* C4, amended: a call of send_email, log_action or update_cache changes no
\* program state and returns None; a call of get_user changes no program state
\* and returns the dict {"id": user_id, "age": 25, "email": "user@example.com"}.
C4_ThreeNoOps ==
    [][/\ \A m \in {"send_email", "log_action", "update_cache"} :
              Called(m) => /\ UNCHANGED progvars
                           /\ last'.ret = None /\ last'.exc = NoExc
       /\ Called("get_user") =>
              /\ UNCHANGED progvars
              /\ last'.exc = NoExc
              /\ last'.ret = PyDict(<< <<PyStr(<<"id">>), PyInt(last'.arg)>>,
                                       <<PyStr(<<"age">>), PyInt(25)>>,
                                       <<PyStr(<<"email">>),
                                         PyStr(<<"user@example.com">>)>> >>)]_vars

C4_Witness == ncalls = 2 /\ last.op = "log_action" /\ last.ret = None

\* C5 as stated: user_data and counter hold {} and 0 in every state.
C5_GlobalsNeverChange == user_data = PyDict(<<>>) /\ counter = 0

\* C5, amended: user_data and counter start as {} and 0 and no step other than
\* a call of calculate changes them (calculate evaluates its argument in the
\* module's namespace, and the expression may write them).
C5_OnlyCalculateWrites ==
    /\ user_data = PyDict(<<>>) /\ counter = 0
    /\ [][~Called("calculate") => UNCHANGED <<user_data, counter>>]_vars

C5_Witness == ncalls = 2 /\ counter = 1 /\ last.op = "write_config"

NonNegative(num) == ~(num < 0)

\* C6: remove_negatives returns the list it was given, holding exactly the
\* non-negative elements of the input in their original order.
C6_RemovesEveryNegative ==
    last.op = "remove_negatives" =>
        last.ret = ListObj("arg", SelectSeq(last.arg, NonNegative))

\* What process_data returns for each of Datas.
Doubled ==
    << PyInt(246), PyInt(-14), PyInt(20), None, None, None, PyInt(14), PyInt(2),
       PyInt(-2), None, None >>

\* C7: process_data never raises: it returns int(data) * 2 when data converts
\* to an integer and None when it does not, and changes no state.
C7_ProcessDataNeverRaises ==
    [][Called("process_data") =>
           /\ last'.exc = NoExc
           /\ last'.ret = IF int(last'.arg).exc = NoExc
                          THEN PyInt(int(last'.arg).v * 2) ELSE None
           /\ \A d \in 1..Len(Datas) : last'.arg = Datas[d] => last'.ret = Doubled[d]
           /\ UNCHANGED progvars]_vars

C7_Witness == last.op = "process_data" /\ last.arg = None /\ last.ret = None

Underage(user) == Item(user, "age").v < 18

\* C8: process_user invokes get_user, then validates the age, then invokes
\* send_email, log_action and update_cache in this order and returns the user
\* get_user gave; when that user's age is below 18 it raises ValueError("Too
\* young") with none of the three invoked; on a UserManager itself (age 25) it
\* never raises.
C8_ProcessUserOrder ==
    /\ pc \in {"validate", "send_email"} => trace = <<"get_user">>
    /\ pc = "log_action" => trace = <<"get_user", "send_email">>
    /\ pc = "update_cache" => trace = <<"get_user", "send_email", "log_action">>
    /\ last.op = "process_user" =>
        /\ last.exc \in {NoExc, "ValueError: Too young"}
        /\ (last.exc # NoExc) = Underage(last.arg.user)
        /\ last.exc # NoExc => last.arg.trace = <<"get_user">> /\ last.ret = None
        /\ last.exc = NoExc =>
              /\ last.arg.trace =
                     <<"get_user", "send_email", "log_action", "update_cache">>
              /\ last.ret = last.arg.user
        /\ Selves[last.arg.self].cls = "UserManager" =>
              /\ last.exc = NoExc
              /\ last.ret = User(last.arg.user_id, 25)

C8_Witness ==
    /\ last.op = "process_user" /\ last.exc = "ValueError: Too young"
    /\ last.arg.trace = <<"get_user">>

\* C9: with assertions enabled, set_age(age) returns age exactly when
\* 0 < age < 150, fails with AssertionError "Age must be positive" for age <= 0
\* and with AssertionError "Age too high" for age >= 150, and changes no state.
C9_SetAgeAsserts ==
    [][Called("set_age") /\ debug =>
           /\ (0 < last'.arg /\ last'.arg < 150) =
                  (last'.exc = NoExc /\ last'.ret = PyInt(last'.arg))
           /\ last'.arg <= 0 => last'.exc = "AssertionError: Age must be positive"
           /\ last'.arg >= 150 => last'.exc = "AssertionError: Age too high"
           /\ UNCHANGED progvars]_vars

C9_Witness ==
    /\ debug /\ last.op = "set_age" /\ last.arg = 150
    /\ last.exc = "AssertionError: Age too high"

\* Whether load_json cannot read a JSON value from the path.
Unreadable(path) == fs[path].kind # "file" \/ loads(fs[path].data).exc # NoExc

\* What C10 says of every call, the round trip apart.
LoadJsonContains ==
    /\ last'.exc = NoExc
    /\ Unreadable(last'.arg) =>
          /\ last'.ret = PyDict(<<>>)
          /\ Len(stdout') = Len(stdout) + 1
          /\ stdout'[Len(stdout')][1] = "Error: "
    /\ handles' = handles
    /\ fs' = fs

\* C10 as stated: load_json never raises; for a path that is missing, cannot be
\* opened or holds no valid JSON it prints an error line and returns {}; it
\* leaves no handle open and the files unchanged; and for a file that a
\* completed write_config(filename, config) wrote it returns a value equal to
\* config.
C10_RoundTripAnyConfig ==
    [][Called("load_json") =>
           /\ LoadJsonContains
           /\ written[last'.arg] # 0 => last'.ret = Configs[written[last'.arg]]]_vars

\* C10, amended: as stated, the round trip holding for a config made of JSON's
\* own types (None, bool, int, str, list, dict with str keys).
C10_RoundTripJsonNative ==
    [][Called("load_json") =>
           /\ LoadJsonContains
           /\ (written[last'.arg] # 0 /\ IsJsonNative(Configs[written[last'.arg]]))
                  => last'.ret = Configs[written[last'.arg]]]_vars

C10_Witness ==
    /\ last.op = "load_json" /\ written[last.arg] = 1
    /\ last.ret = Configs[1]

====
